---- MODULE Spec2Model ----
(***************************************************************************)
(* Farmer Harvest Game (src/farmer-game/Game.js, src/farmer-game/Farmer.js,*)
(* whose second half is Crop.js: Crop, PowerUp, Scarecrow, Input).         *)
(*                                                                         *)
(* Units.  The code computes with JavaScript numbers in seconds and        *)
(* pixels.  The model keeps every quantity an integer:                     *)
(*   time      in milliseconds   (the code divides by 1000 in Game.tick),  *)
(*   position  in 1/1000 pixel   (px/s times ms),                          *)
(*   life      in 1/1000         (pointText.life starts at 1),             *)
(* so that x + vx * dt, timeLeft - dt and accum - spawnEvery are exact.    *)
(* Floating point rounding of the code is not modelled.                    *)
(***************************************************************************)
EXTENDS Integers, Sequences, FiniteSets, TLC

(***************************************************************************)
(* Program constants                                                       *)
(***************************************************************************)
Milli == 1000
WIDTH == 900
HEIGHT == 540
TILE == 30
GAME_LEN == 60
GOAL == 15
MaxFrameMs == 33
spawnEvery == 800
powerUpSpawnEvery == 12000
scytheRange == 80
FarmerSize == 34
baseSpeed == 260
SpeedMultiplierTenths == 18
PowerUpDuration == 8
PowerUpSize == 24
CropW == 20
CropH == 26
ScarecrowW == 26
ScarecrowH == 46
PointTextLife == 1
TextFade == 2
TextRise == 30
SwayRate == 2
PulseRate == 4

State == [MENU |-> "MENU", PLAYING |-> "PLAYING", PAUSED |-> "PAUSED",
          GAME_OVER |-> "GAME_OVER", WIN |-> "WIN"]

\* cropData with a golden apple worth a pumpkin
cropData_CheapApple ==
    [wheat       |-> [value |-> 1, headColor |-> "#d9a441"],
     pumpkin     |-> [value |-> 3, headColor |-> "#ff6f00"],
     goldenApple |-> [value |-> 3, headColor |-> "#ffd700"]]

cropData == [wheat       |-> [value |-> 1, headColor |-> "#d9a441"],
             pumpkin     |-> [value |-> 3, headColor |-> "#ff6f00"],
             goldenApple |-> [value |-> 5, headColor |-> "#ffd700"]]

PowerUpTypes == <<"speed", "scythe">>

ArrowKeys == {"ArrowLeft", "ArrowRight", "ArrowUp", "ArrowDown"}
PauseKeys == {"p", "P"}

(***************************************************************************)
(* Bounds of the model (not program constants)                             *)
(***************************************************************************)
\* requestAnimationFrame callback chains that may be running at once
MaxCallbacks == 2
\* the user touches the keyboard for this many ms of a round
KeyWindow == 33
\* with more than one callback chain, this many ms of a round are explored
SecondRound == 2500

(***************************************************************************)
(* Geometry utilities                                                      *)
(***************************************************************************)
Min2(a, b) == IF a <= b THEN a ELSE b
Max2(a, b) == IF a >= b THEN a ELSE b

clamp(v, lo, hi) == Min2(hi, Max2(lo, v))

aabb(a, b) ==
    /\ a.x < b.x + b.w
    /\ a.x + a.w > b.x
    /\ a.y < b.y + b.h
    /\ a.y + a.h > b.y

(***************************************************************************)
(* Entities.  Entity(x, y, w, h) with the dead flag; the constructors take *)
(* pixels, the records hold 1/1000 pixel.                                  *)
(***************************************************************************)
Entity(x, y, w, h) ==
    [x |-> x * Milli, y |-> y * Milli, w |-> w * Milli, h |-> h * Milli,
     dead |-> FALSE]

\* new Farmer(x, y): activePowerUps is the Map in insertion order, one
\* <<type, timeLeft>> entry per element (data is powerData[type])
Farmer(x, y) ==
    [x |-> x * Milli, y |-> y * Milli,
     w |-> FarmerSize * Milli, h |-> FarmerSize * Milli, dead |-> FALSE,
     speed |-> baseSpeed, vx |-> 0, vy |-> 0,
     activePowerUps |-> <<>>, hasScythe |-> FALSE]

\* new Crop(x, y, type); sway is the random phase drawn by the constructor
Crop(x, y, type, sway) ==
    [x |-> x * Milli, y |-> y * Milli, w |-> CropW * Milli, h |-> CropH * Milli,
     dead |-> FALSE, type |-> type, value |-> cropData[type].value,
     sway |-> sway]

\* new PowerUp(x, y, type)
PowerUp(x, y, type) ==
    [x |-> x * Milli, y |-> y * Milli,
     w |-> PowerUpSize * Milli, h |-> PowerUpSize * Milli,
     dead |-> FALSE, type |-> type, duration |-> PowerUpDuration * Milli,
     pulse |-> 0]

\* new Scarecrow(x, y)
Scarecrow(x, y) == Entity(x, y, ScarecrowW, ScarecrowH)

(***************************************************************************)
(* Farmer                                                                  *)
(***************************************************************************)
B2N(b) == IF b THEN 1 ELSE 0

\* a handleInput in which the right and the down key win over their opposites
handleInput_LastWins(p, ks) ==
    [p EXCEPT !.vx = IF "ArrowRight" \in ks THEN p.speed
                     ELSE IF "ArrowLeft" \in ks THEN -p.speed ELSE 0,
              !.vy = IF "ArrowDown" \in ks THEN p.speed
                     ELSE IF "ArrowUp" \in ks THEN -p.speed ELSE 0]

\* Farmer.handleInput(input): velocity from the held keys and this.speed
handleInput(p, ks) ==
    LET L == B2N("ArrowLeft" \in ks)
        R == B2N("ArrowRight" \in ks)
        U == B2N("ArrowUp" \in ks)
        D == B2N("ArrowDown" \in ks)
    IN  [p EXCEPT !.vx = (R - L) * p.speed, !.vy = (D - U) * p.speed]

HasEntry(entries, type) == \E i \in 1..Len(entries) : entries[i].type = type

\* Farmer.updatePowerUps(dt): every entry is decremented, the ones at or
\* below zero are deleted, speed and hasScythe come from the ones that stay
updatePowerUps(p, dt) ==
    LET ticked == [i \in 1..Len(p.activePowerUps) |->
                     [p.activePowerUps[i] EXCEPT !.timeLeft = @ - dt]]
        kept   == SelectSeq(ticked, LAMBDA e : e.timeLeft > 0)
    IN  [p EXCEPT
           !.activePowerUps = kept,
           !.speed = IF HasEntry(kept, "speed")
                     THEN (baseSpeed * SpeedMultiplierTenths) \div 10
                     ELSE baseSpeed,
           !.hasScythe = HasEntry(kept, "scythe")]

\* a proposed position that is not clamped to the field
ProposedMove_NoClamp(p, dt) ==
    [p EXCEPT !.x = p.x + p.vx * dt, !.y = p.y + p.vy * dt]

\* the position Farmer.update proposes before the obstacle test
ProposedMove(p, dt) ==
    [p EXCEPT !.x = clamp(p.x + p.vx * dt, 0, WIDTH * Milli - p.w),
              !.y = clamp(p.y + p.vy * dt, 0, HEIGHT * Milli - p.h)]

Bumps(p, obstacles) == \E i \in 1..Len(obstacles) : aabb(p, obstacles[i])

\* an obstacle test that slides: only x goes back
ResolveObstacles_Slide(old, new, obstacles) ==
    IF Bumps(new, obstacles) THEN [new EXCEPT !.x = old.x] ELSE new

\* the obstacle test of Farmer.update: both coordinates go back
ResolveObstacles(old, new, obstacles) ==
    IF Bumps(new, obstacles) THEN [new EXCEPT !.x = old.x, !.y = old.y] ELSE new

\* Farmer.update(dt, game)
FarmerUpdate(p, dt, obstacles) ==
    LET q == updatePowerUps(p, dt)
    IN  ResolveObstacles(q, ProposedMove(q, dt), obstacles)

\* Map.set(type, {timeLeft: duration, data}): an existing key keeps its
\* place and gets the new value, a new key is appended
MapSet(entries, type, val) ==
    IF HasEntry(entries, type)
    THEN [i \in 1..Len(entries) |->
            IF entries[i].type = type THEN val ELSE entries[i]]
    ELSE Append(entries, val)

\* an addPowerUp that adds the duration to the time an active kind has left
addPowerUp_Stack(p, pu) ==
    LET left == IF HasEntry(p.activePowerUps, pu.type)
                THEN (CHOOSE e \in {p.activePowerUps[i] : i \in 1..Len(p.activePowerUps)} :
                        e.type = pu.type).timeLeft
                ELSE 0
    IN  [p EXCEPT !.activePowerUps =
           MapSet(@, pu.type, [type |-> pu.type, timeLeft |-> left + pu.duration])]

\* Farmer.addPowerUp(powerUp)
addPowerUp(p, pu) ==
    [p EXCEPT !.activePowerUps =
        MapSet(@, pu.type, [type |-> pu.type, timeLeft |-> pu.duration])]

(***************************************************************************)
(* Game: spawning                                                          *)
(***************************************************************************)
\* Math.random() as the code uses it.  A crop draw is <<i, j, r, sway>>:
\* i = floor(random * (WIDTH - 2 TILE) / TILE), j likewise for HEIGHT,
\* r = the rarity draw in tenths, sway = the constructor's phase.
GridCols == (WIDTH - 2 * TILE) \div TILE
GridRows == (HEIGHT - 2 * TILE) \div TILE

CropTypeOf(r) ==
    IF r < 7 THEN "wheat" ELSE IF r < 9 THEN "pumpkin" ELSE "goldenApple"

\* Game.spawnCrop()
spawnCrop(crops, d) ==
    Append(crops, Crop(d.i * TILE + TILE, d.j * TILE + TILE, CropTypeOf(d.r), d.sway))

\* Game.spawnPowerUp(); d.t = floor(random * types.length)
spawnPowerUp(powerUps, d) ==
    Append(powerUps, PowerUp(d.i * TILE + TILE, d.j * TILE + TILE, PowerUpTypes[d.t + 1]))

\* The draws the model explores.  The cell (13, 14) puts a crop or a power-up
\* on the farmer's start position, the cell (12, 14) next to it (no overlap,
\* inside the scythe range), the cell (0, 0) far from it.
AppleOnStart == [i |-> 13, j |-> 14, r |-> 9, sway |-> 0]
WheatOnStart == [i |-> 13, j |-> 14, r |-> 0, sway |-> 0]
WheatBeside  == [i |-> 12, j |-> 14, r |-> 0, sway |-> 0]
PumpkinBeside == [i |-> 12, j |-> 14, r |-> 7, sway |-> 0]
DefaultCropDraw == [i |-> 0, j |-> 0, r |-> 0, sway |-> 0]

SpeedOnStart  == [i |-> 13, j |-> 14, t |-> 0]
ScytheOnStart == [i |-> 13, j |-> 14, t |-> 1]
SpeedBeside   == [i |-> 12, j |-> 14, t |-> 0]
DefaultPowerUpDraw == [i |-> 0, j |-> 0, t |-> 0]

\* crop draws with a wheat beside the farmer at 0.8 s and another at 20.8 s,
\* after a scythe that is picked up at 12 s has run out
BesideEarlyAndLate ==
    [k \in 1..26 |-> IF k \in {1, 26} THEN WheatBeside ELSE DefaultCropDraw]

\* iterations of "while (accum >= every) { accum -= every; spawn() }"
RECURSIVE SpawnCount(_, _)
SpawnCount(accum, every) ==
    IF accum >= every THEN 1 + SpawnCount(accum - every, every) ELSE 0

\* the next n draws of a stream; an exhausted stream repeats its default
Draws(stream, n, default) ==
    [k \in 1..n |-> IF k <= Len(stream) THEN stream[k] ELSE default]

Rest(stream, n) ==
    IF n >= Len(stream) THEN <<>> ELSE SubSeq(stream, n + 1, Len(stream))

\* the spawns of one while loop, one draw each
RECURSIVE SpawnCrops(_, _)
SpawnCrops(crops, draws) ==
    IF draws = <<>> THEN crops
    ELSE SpawnCrops(spawnCrop(crops, Head(draws)), Tail(draws))

RECURSIVE SpawnPowerUps(_, _)
SpawnPowerUps(powerUps, draws) ==
    IF draws = <<>> THEN powerUps
    ELSE SpawnPowerUps(spawnPowerUp(powerUps, Head(draws)), Tail(draws))

(***************************************************************************)
(* Game: collection                                                        *)
(***************************************************************************)
Abs(n) == IF n < 0 THEN -n ELSE n

\* d * d for d in 1/1000 px, as <<millions, rest>> (d * d itself is beyond
\* TLC's 32-bit integers)
Square(d) ==
    LET a == Abs(d) \div Milli
        b == Abs(d) % Milli
        low == 2 * Milli * a * b + b * b
    IN  <<a * a + low \div (Milli * Milli), low % (Milli * Milli)>>

\* Math.sqrt(dx * dx + dy * dy) <= scytheRange
WithinRange(dx, dy, range) ==
    LET sx == Square(dx)
        sy == Square(dy)
        lo == sx[2] + sy[2]
        hi == sx[1] + sy[1] + lo \div (Milli * Milli)
    IN  \/ hi < range * range
        \/ hi = range * range /\ lo % (Milli * Milli) = 0

\* the filter predicate of the scythe branch
InScythe(p, c) ==
    LET dx == (p.x + p.w \div 2) - (c.x + c.w \div 2)
        dy == (p.y + p.h \div 2) - (c.y + c.h \div 2)
    IN  WithinRange(dx, dy, scytheRange)

\* a collection that ignores the scythe
Collects_BoxOnly(p, c) == aabb(p, c)

\* the predicate that selects collectedCrops
Collects(p, c) == IF p.hasScythe THEN InScythe(p, c) ELSE aabb(p, c)

\* a collection that reads the player as it was before player.update
CollectionPlayer_BeforeMove(before, after) ==
    [after EXCEPT !.x = before.x, !.y = before.y]

\* the player the collection filters read: this.player, after player.update
CollectionPlayer(before, after) == after

\* a summation that counts the crops
SumValues_Count(cs) == Len(cs)

RECURSIVE SumValues(_)
SumValues(cs) == IF cs = <<>> THEN 0 ELSE Head(cs).value + SumValues(Tail(cs))

\* the floating text pushed for a collected crop
PointText(c) ==
    [x |-> c.x + c.w \div 2, y |-> c.y, points |-> c.value,
     life |-> PointTextLife * Milli, color |-> cropData[c.type].headColor]

RECURSIVE AddAll(_, _)
AddAll(p, pus) == IF pus = <<>> THEN p ELSE AddAll(addPowerUp(p, Head(pus)), Tail(pus))

\* "dead = true" for the elements the filter selected; hit[i] tells whether
\* the filter selected list[i]
MarkDead(list, hit) ==
    [i \in 1..Len(list) |-> IF hit[i] THEN [list[i] EXCEPT !.dead = TRUE] ELSE list[i]]

(***************************************************************************)
(* Game                                                                    *)
(***************************************************************************)
StartX == WIDTH \div 2 - 17
StartY == HEIGHT - 80

\* the readout elements Game looks up by id; this.ui holds the ones the
\* page has, "get" gives undefined for the others
Readouts == {"score", "time", "goal", "status", "powerUpStatus"}

\* a write to a readout without a guard: a TypeError when the element is
\* undefined
Write_Unguarded(g, el) == IF el \in g.ui THEN "written" ELSE "TypeError"

\* a write to a readout, "if (this.ui.x) this.ui.x.textContent = ...":
\* skipped when the element is undefined
Write(g, el) == IF el \in g.ui THEN "written" ELSE "skipped"

\* one of the writes to the readouts els throws, which ends the handler
Throws(g, els) == \E el \in els : Write(g, el) = "TypeError"

\* the readouts Game.syncUI() writes, with updatePowerUpUI()
SyncUI == {"score", "time", "goal", "powerUpStatus"}

\* the fields the constructor sets.  lastTimeFresh stands for lastTime: it
\* is TRUE from reset() (lastTime = performance.now()) to the next tick.
\* threw tells that a handler of the game ended with an uncaught TypeError.
NewGame ==
    [state |-> State.MENU,
     player |-> Farmer(StartX, StartY),
     crops |-> <<>>, powerUps |-> <<>>, obstacles |-> <<>>, pointTexts |-> <<>>,
     lastTimeFresh |-> FALSE,
     timeLeft |-> GAME_LEN * Milli,
     accumSpawn |-> 0, accumPowerUpSpawn |-> 0,
     score |-> 0, goal |-> GOAL,
     ui |-> Readouts, threw |-> FALSE]

\* the game constructed on a page that has the readouts in page
Construct(page) == [NewGame EXCEPT !.ui = Readouts \cap page]

\* a reset that leaves the crops on the field
reset_KeepCrops(g) ==
    [g EXCEPT
       !.state = State.MENU,
       !.player = Farmer(StartX, StartY),
       !.powerUps = <<>>, !.pointTexts = <<>>,
       !.score = 0,
       !.timeLeft = GAME_LEN * Milli,
       !.accumSpawn = 0, !.accumPowerUpSpawn = 0,
       !.lastTimeFresh = TRUE,
       !.obstacles = <<Scarecrow(200, 220), Scarecrow(650, 160)>>]

\* a reset that keeps the score
reset_KeepScore(g) ==
    [g EXCEPT
       !.state = State.MENU,
       !.player = Farmer(StartX, StartY),
       !.crops = <<>>, !.powerUps = <<>>, !.pointTexts = <<>>,
       !.timeLeft = GAME_LEN * Milli,
       !.accumSpawn = 0, !.accumPowerUpSpawn = 0,
       !.lastTimeFresh = TRUE,
       !.obstacles = <<Scarecrow(200, 220), Scarecrow(650, 160)>>]

\* Game.reset(): the fields, then syncUI() and the status readout
reset(g) ==
    [g EXCEPT
       !.state = State.MENU,
       !.player = Farmer(StartX, StartY),
       !.crops = <<>>, !.powerUps = <<>>, !.pointTexts = <<>>,
       !.score = 0,
       !.timeLeft = GAME_LEN * Milli,
       !.accumSpawn = 0, !.accumPowerUpSpawn = 0,
       !.lastTimeFresh = TRUE,
       !.obstacles = <<Scarecrow(200, 220), Scarecrow(650, 160)>>,
       !.threw = @ \/ Throws(g, SyncUI \cup {"status"})]

\* Game.start() starts a callback chain in its first branch
StartsChain(g) == g.state \in {State.MENU, State.GAME_OVER, State.WIN}

\* a start that also restarts a round that is being played
start_WhilePlaying(g) ==
    IF StartsChain(g) \/ g.state = State.PLAYING
    THEN [reset(g) EXCEPT !.state = State.PLAYING]
    ELSE IF g.state = State.PAUSED THEN [g EXCEPT !.state = State.PLAYING]
    ELSE g

\* Game.start() gets to requestAnimationFrame(this.tick)
RequestsFrame(g) == StartsChain(g) /\ ~Throws(g, SyncUI \cup {"status"})

\* Game.start()
start(g) ==
    IF StartsChain(g)
    THEN IF Throws(g, SyncUI \cup {"status"}) THEN reset(g)
         ELSE [reset(g) EXCEPT !.state = State.PLAYING]
    ELSE IF g.state = State.PAUSED
    THEN [g EXCEPT !.state = State.PLAYING, !.threw = @ \/ Throws(g, {"status"})]
    ELSE g

\* a togglePause whose resume restarts the clock
togglePause_Restart(g) ==
    IF g.state = State.PLAYING THEN [g EXCEPT !.state = State.PAUSED]
    ELSE IF g.state = State.PAUSED
    THEN [g EXCEPT !.state = State.PLAYING, !.timeLeft = GAME_LEN * Milli]
    ELSE g

\* Game.togglePause()
togglePause(g) ==
    IF g.state = State.PLAYING
    THEN [g EXCEPT !.state = State.PAUSED, !.threw = @ \/ Throws(g, {"status"})]
    ELSE IF g.state = State.PAUSED
    THEN [g EXCEPT !.state = State.PLAYING, !.threw = @ \/ Throws(g, {"status"})]
    ELSE g

\* what one call of update did (the values of its locals), for the properties
NoUpdate ==
    [phase |-> "none", dt |-> 0, oldX |-> 0, oldY |-> 0, vx |-> 0, vy |-> 0,
     bumped |-> FALSE, cropsSpawned |-> 0, powerUpsSpawned |-> 0,
     taken |-> <<>>,
     collected |-> <<>>, picked |-> <<>>]

\* a countdown without the clamp
Countdown_NoClamp(timeLeft, dt) == timeLeft - dt

\* a countdown that starts over when it runs out
Countdown_Wraps(timeLeft, dt) ==
    IF timeLeft - dt <= 0 THEN GAME_LEN * Milli
    ELSE clamp(timeLeft - dt, 0, GAME_LEN * Milli)

\* the countdown of Game.update
Countdown(timeLeft, dt) == clamp(timeLeft - dt, 0, GAME_LEN * Milli)

\* an expired timer that always resolves to WIN
TimeUp_AlwaysWin(g) == State.WIN

\* the state the expired timer resolves to
TimeUp(g) == IF g.score >= g.goal THEN State.WIN ELSE State.GAME_OVER

\* a goal test that needs more than the goal
AfterScore_Strict(st, score, goal) == IF score > goal THEN State.WIN ELSE st

\* the state after the score has been raised by a collection
AfterScore(st, score, goal) == IF score >= goal THEN State.WIN ELSE st

\* Game.update(dt) in state PLAYING with time left: movement, spawning,
\* collection, pickup, cleanup.  ks is input.keys, rng the random streams.
\* A write to a readout that throws ends the call where it stands: at the
\* score readout, at the status readout of a win, or at the end.
Simulate(g, dt, ks, rng) ==
    LET moving  == handleInput(g.player, ks)
        p       == FarmerUpdate(moving, dt, g.obstacles)
        accC    == g.accumSpawn + dt
        nC      == SpawnCount(accC, spawnEvery)
        accP    == g.accumPowerUpSpawn + dt
        nP      == SpawnCount(accP, powerUpSpawnEvery)
        crops1  == SpawnCrops(g.crops, Draws(rng.crops, nC, DefaultCropDraw))
        pus1    == SpawnPowerUps(g.powerUps, Draws(rng.powerUps, nP, DefaultPowerUpDraw))
        reaper  == CollectionPlayer(moving, p)
        hitC    == [i \in 1..Len(crops1) |-> Collects(reaper, crops1[i])]
        crops2  == MarkDead(crops1, hitC)
        collectedCrops == SelectSeq(crops2, LAMBDA c : c.dead)
        texts1  == g.pointTexts \o
                   [i \in 1..Len(collectedCrops) |-> PointText(collectedCrops[i])]
        score1  == g.score + SumValues(collectedCrops)
        state1  == IF collectedCrops # <<>>
                   THEN AfterScore(g.state, score1, g.goal) ELSE g.state
        hitP    == [i \in 1..Len(pus1) |-> aabb(p, pus1[i])]
        pus2    == MarkDead(pus1, hitP)
        collectedPowerUps == SelectSeq(pus2, LAMBDA u : u.dead)
        p2      == AddAll(p, collectedPowerUps)
        crops3  == SelectSeq(crops2, LAMBDA c : ~c.dead)
        pus3    == SelectSeq(pus2, LAMBDA u : ~u.dead)
        crops4  == [i \in 1..Len(crops3) |-> [crops3[i] EXCEPT !.sway = @ + dt * SwayRate]]
        pus4    == [i \in 1..Len(pus3) |-> [pus3[i] EXCEPT !.pulse = @ + dt * PulseRate]]
        texts2  == [i \in 1..Len(texts1) |->
                      [texts1[i] EXCEPT !.life = @ - dt * TextFade,
                                        !.y = @ - dt * TextRise]]
        texts3  == SelectSeq(texts2, LAMBDA t : t.life > 0)
        atScore == collectedCrops # <<>> /\ Throws(g, {"score"})
        atWin   == /\ collectedCrops # <<>>
                   /\ state1 = State.WIN
                   /\ Throws(g, {"status"})
        atEnd   == Throws(g, {"time", "powerUpStatus"})
        scored  == [g EXCEPT !.player = p, !.crops = crops2, !.powerUps = pus1,
                             !.pointTexts = texts1, !.score = score1,
                             !.accumSpawn = accC - nC * spawnEvery,
                             !.accumPowerUpSpawn = accP - nP * powerUpSpawnEvery,
                             !.threw = TRUE]
    IN  [game |-> IF atScore THEN scored
                  ELSE IF atWin THEN [scored EXCEPT !.state = state1]
                  ELSE [g EXCEPT !.player = p2, !.crops = crops4, !.powerUps = pus4,
                            !.pointTexts = texts3, !.score = score1,
                            !.state = state1,
                            !.accumSpawn = accC - nC * spawnEvery,
                            !.accumPowerUpSpawn = accP - nP * powerUpSpawnEvery,
                            !.threw = @ \/ atEnd],
         rng  |-> [crops |-> Rest(rng.crops, nC), powerUps |-> Rest(rng.powerUps, nP)],
         did  |-> [phase |-> IF atScore \/ atWin \/ atEnd THEN "aborted" ELSE "simulated",
                   dt |-> dt,
                   oldX |-> g.player.x, oldY |-> g.player.y,
                   vx |-> moving.vx, vy |-> moving.vy,
                   bumped |-> Bumps(ProposedMove(updatePowerUps(moving, dt), dt), g.obstacles),
                   cropsSpawned |-> nC, powerUpsSpawned |-> nP,
                   taken |-> [i \in 1..Len(crops2) |-> crops2[i].dead],
                   collected |-> [i \in 1..Len(collectedCrops) |-> collectedCrops[i].type],
                   picked |-> IF atScore \/ atWin THEN <<>>
                              ELSE [i \in 1..Len(collectedPowerUps) |->
                                      collectedPowerUps[i].type]]]

\* a timer branch that does not return
Expire_NoReturn(g, dt, ks, rng) ==
    [Simulate(g, dt, ks, rng) EXCEPT !.game.state = TimeUp(g)]

\* the branch of Game.update for "timeLeft <= 0": resolve the round, write
\* the status readout, syncUI() and return
Expire(g, dt, ks, rng) ==
    [game |-> [g EXCEPT !.state = TimeUp(g),
                        !.threw = @ \/ Throws(g, SyncUI \cup {"status"})],
     rng |-> rng,
     did |-> [NoUpdate EXCEPT
                !.phase = IF Throws(g, SyncUI \cup {"status"}) THEN "aborted"
                          ELSE "timeup",
                !.dt = dt]]

\* a skipping update that lets the clock run while paused
update_PausedCounts(g, dt, ks, rng) ==
    IF g.state = State.PAUSED
    THEN [game |-> [g EXCEPT !.timeLeft = Countdown(g.timeLeft, dt)], rng |-> rng,
          did |-> [NoUpdate EXCEPT !.phase = "skipped", !.dt = dt]]
    ELSE IF g.state # State.PLAYING
    THEN [game |-> g, rng |-> rng, did |-> [NoUpdate EXCEPT !.phase = "skipped", !.dt = dt]]
    ELSE LET g1 == [g EXCEPT !.timeLeft = Countdown(g.timeLeft, dt)]
         IN  IF g1.timeLeft <= 0
             THEN Expire(g1, dt, ks, rng)
             ELSE Simulate(g1, dt, ks, rng)

\* Game.update(dt)
update(g, dt, ks, rng) ==
    IF g.state # State.PLAYING
    THEN [game |-> g, rng |-> rng, did |-> [NoUpdate EXCEPT !.phase = "skipped", !.dt = dt]]
    ELSE LET g1 == [g EXCEPT !.timeLeft = Countdown(g.timeLeft, dt)]
         IN  IF g1.timeLeft <= 0
             THEN Expire(g1, dt, ks, rng)
             ELSE Simulate(g1, dt, ks, rng)

(***************************************************************************)
(* The environment.  A round lasts 1819 frames or more, so the runs that   *)
(* are explored are the ones of a few scenarios: what Math.random returns  *)
(* first (default draws after that), which keys the user touches and       *)
(* when (round clock, in ms), and the elapsed ms the first frame after a   *)
(* reset() may see: its timestamp may lie before reset's performance.now().*)
(* Start and reset clicks and the frames are free in every scenario.       *)
(***************************************************************************)
Scenario(crops, powerUps, userKeys, from, first) ==
    [crops |-> crops, powerUps |-> powerUps, userKeys |-> userKeys,
     from |-> from, first |-> first]

AnyFrame == {MaxFrameMs, MaxFrameMs + 17}
RoundMs == GAME_LEN * Milli

Scenarios ==
    { \* three golden apples land on the farmer, paused at will
      Scenario(<<AppleOnStart, AppleOnStart, AppleOnStart>>, <<>>, {"p"}, 0, AnyFrame),
      Scenario(<<AppleOnStart, AppleOnStart, AppleOnStart>>, <<>>, {"p"}, 1600, AnyFrame),
      \* two golden apples, then the clock runs out with a key held
      Scenario(<<AppleOnStart, AppleOnStart>>, <<>>, {"ArrowRight", "ArrowUp"},
               RoundMs - 2 * MaxFrameMs, AnyFrame),
      \* walking from the first frame on, into a scarecrow or a wall
      Scenario(<<>>, <<>>, {"ArrowLeft", "ArrowUp", "ArrowRight"}, 0, AnyFrame),
      \* a first frame whose timestamp is early, or short
      Scenario(<<WheatOnStart>>, <<>>, {"ArrowRight"}, 0, {-1, 16}),
      \* a speed boost picked up at 12 s runs out at 20 s while walking
      Scenario(<<>>, <<SpeedOnStart>>, {"ArrowUp", "p"}, 20000 - MaxFrameMs, AnyFrame),
      \* power-ups lying beside the farmer, who steps onto them at 24 s
      Scenario(<<>>, <<SpeedBeside, SpeedOnStart>>, {"ArrowLeft"}, 24000, AnyFrame),
      Scenario(<<>>, <<SpeedBeside, SpeedBeside>>, {"ArrowLeft"}, 24000, AnyFrame),
      Scenario(<<>>, <<SpeedBeside, ScytheOnStart>>, {"ArrowLeft"}, 24000, AnyFrame),
      \* crops beside the farmer and a scythe at 12 s
      Scenario(<<WheatBeside, PumpkinBeside>>, <<ScytheOnStart>>, {"p"}, 12000, AnyFrame),
      \* a scythe from 12 s to 20 s, a crop beside the farmer before and after
      Scenario(BesideEarlyAndLate, <<ScytheOnStart>>, {}, 0, AnyFrame),
      \* two golden apples, then two pumpkins that a scythe takes in one frame
      Scenario(<<AppleOnStart, AppleOnStart, PumpkinBeside, PumpkinBeside>>,
               <<ScytheOnStart>>, {}, 0, AnyFrame),
      \* a wheat beside the farmer, who walks onto it once it lies there
      Scenario(<<WheatBeside>>, <<>>, {"ArrowLeft"}, spawnEvery, AnyFrame) }

(***************************************************************************)
(* The state machine                                                       *)
(***************************************************************************)
VARIABLES
    game,          \* the Game object
    keys,          \* Input.keys, the set of held keys
    rafCallbacks,  \* tick callbacks requestAnimationFrame holds for the next frame
    ranInFrame,    \* callbacks of the running animation frame that have run
    rng,           \* the values Math.random is going to return
    env,           \* the scenario of the run
    did,           \* what the last call of update did
    harvest,       \* the crop types collected in the round, frame by frame
    round,         \* the round so far: simulated time, crops and power-ups spawned
    listeners,     \* the event subscriptions that are registered
    frame          \* the animation frames: whether one has passed, and the
                   \* calls of render in the last one

vars == <<game, keys, rafCallbacks, ranInFrame, rng, env, did, harvest, round,
          listeners, frame>>

\* the subscriptions the constructors of Game and Input register
Subscriptions == {"keydown", "keyup", "resize", "click:btnStart", "click:btnReset"}

NewRound == [T |-> 0, crops |-> 0, powerUps |-> 0]

\* the state after "new Game(canvas)" on one of the pages, in one of the
\* scenarios
InitOn(pages, scenarios) ==
    /\ game \in {Construct(page) : page \in pages}
    /\ keys = {}
    /\ rafCallbacks = 0
    /\ ranInFrame = 0
    /\ env \in scenarios
    /\ rng = [crops |-> env.crops, powerUps |-> env.powerUps]
    /\ did = NoUpdate
    /\ harvest = <<>>
    /\ round = NewRound
    /\ listeners = Subscriptions
    /\ frame = [passed |-> FALSE, renders |-> 0]

\* the page has every readout
Init == InitOn({Readouts}, Scenarios)

BetweenFrames == ranInFrame = 0

\* click on the start button: () => this.start()
Start ==
    /\ BetweenFrames
    /\ "click:btnStart" \in listeners
    /\ StartsChain(game) => rafCallbacks < MaxCallbacks
    /\ game' = start(game)
    /\ rafCallbacks' = IF RequestsFrame(game) THEN rafCallbacks + 1 ELSE rafCallbacks
    /\ did' = IF StartsChain(game) THEN NoUpdate ELSE did
    /\ harvest' = IF StartsChain(game) THEN <<>> ELSE harvest
    /\ round' = IF StartsChain(game) THEN NewRound ELSE round
    /\ UNCHANGED <<keys, ranInFrame, rng, env, listeners, frame>>

\* click on the reset button: () => this.reset()
Reset ==
    /\ BetweenFrames
    /\ "click:btnReset" \in listeners
    /\ game' = reset(game)
    /\ did' = NoUpdate
    /\ harvest' = <<>>
    /\ round' = NewRound
    /\ UNCHANGED <<keys, rafCallbacks, ranInFrame, rng, env, listeners, frame>>

\* ms of the round that have been played
RoundClock == RoundMs - game.timeLeft

\* when the user touches the keyboard
InKeyWindow ==
    /\ BetweenFrames
    /\ env.from <= RoundClock
    /\ RoundClock < env.from + KeyWindow

\* Input.onKeyDown(e)
onKeyDown(g, ks, k) ==
    [game |-> IF k \in PauseKeys THEN togglePause(g) ELSE g,
     keys |-> ks \cup {k}]

\* Input.onKeyUp(e)
onKeyUp(ks, k) == ks \ {k}

\* a keydown event; it repeats while the key is held
KeyDown ==
    /\ InKeyWindow
    /\ "keydown" \in listeners
    /\ \E k \in env.userKeys :
         /\ game' = onKeyDown(game, keys, k).game
         /\ keys' = onKeyDown(game, keys, k).keys
    /\ UNCHANGED <<rafCallbacks, ranInFrame, rng, env, did, harvest, round,
                   listeners, frame>>

\* a keyup event of a held key
KeyUp ==
    /\ InKeyWindow
    /\ "keyup" \in listeners
    /\ \E k \in keys : keys' = onKeyUp(keys, k)
    /\ UNCHANGED <<game, rafCallbacks, ranInFrame, rng, env, did, harvest, round,
                   listeners, frame>>

\* dt of Game.tick: Math.min((ts - lastTime) / 1000, 0.033)
FrameDt(elapsed) == Min2(elapsed, MaxFrameMs)

\* the elapsed ms a callback may see.  The callbacks of one animation frame
\* get the same ts, so every callback after the first sees ts = lastTime.
ElapsedNow ==
    IF ranInFrame > 0 THEN {0}
    ELSE IF game.lastTimeFresh THEN env.first ELSE AnyFrame

\* this.tick(ts): update(dt), render(), requestAnimationFrame(this.tick);
\* a call of update that throws ends the callback before the other two
Tick ==
    /\ rafCallbacks > 0
    /\ rafCallbacks > 1 => RoundClock < SecondRound
    /\ \E e \in ElapsedNow :
         \E r \in {update([game EXCEPT !.lastTimeFresh = FALSE], FrameDt(e), keys, rng)} :
             /\ game' = r.game
             /\ rng' = r.rng
             /\ did' = r.did
             /\ harvest' = IF r.did.collected # <<>>
                           THEN Append(harvest, r.did.collected) ELSE harvest
             /\ round' = IF r.did.phase = "simulated"
                         THEN [T |-> round.T + r.did.dt,
                               crops |-> round.crops + r.did.cropsSpawned,
                               powerUps |-> round.powerUps + r.did.powerUpsSpawned]
                         ELSE round
             /\ \E done \in {B2N(r.did.phase # "aborted")} :
                  /\ rafCallbacks' = rafCallbacks - 1 + done
                  /\ ranInFrame' = IF ranInFrame + done >= rafCallbacks'
                                   THEN 0 ELSE ranInFrame + done
                  /\ frame' = [passed |-> TRUE,
                               renders |-> IF ranInFrame = 0 THEN done
                                           ELSE frame.renders + done]
    /\ UNCHANGED <<keys, env, listeners>>

\* an animation frame for which requestAnimationFrame holds no callback
IdleFrame ==
    /\ rafCallbacks = 0
    /\ frame' = [passed |-> TRUE, renders |-> 0]
    /\ UNCHANGED <<game, keys, rafCallbacks, ranInFrame, rng, env, did, harvest,
                   round, listeners>>

\* Input.dispose(): removeEventListener for the two bound handlers
InputDispose(ls) == ls \ {"keydown", "keyup"}

\* Game.dispose()
dispose(ls) == InputDispose(ls) \ {"resize"}

\* a call of game.dispose()
Dispose ==
    /\ BetweenFrames
    /\ listeners' = dispose(listeners)
    /\ UNCHANGED <<game, keys, rafCallbacks, ranInFrame, rng, env, did, harvest,
                   round, frame>>

Next ==
    \/ Start
    \/ Reset
    \/ KeyDown
    \/ KeyUp
    \/ Tick
    \/ IdleFrame
    \/ Dispose

Spec == Init /\ [][Next]_vars

\* tick hands itself to requestAnimationFrame at the end of every call, so a
\* chain that was started runs in every animation frame; the user's events
\* come between frames, finitely many of them before the next frame.
\* a round is being played on one callback chain
Playing == game.state = State.PLAYING /\ rafCallbacks = 1

\* Strong fairness of the frames of a round that is being played, that is of
\* the action Tick /\ Playing.  A frame of such a round always changes the
\* state (the clock or an accumulator moves), so the action is enabled
\* exactly in the states Playing, and its strong fairness reads: if the round
\* is being played again and again, a frame of it runs again and again.
FramesKeepComing == []<>Playing => []<><<Tick /\ Playing>>_vars

LiveSpec == Spec /\ FramesKeepComing

\* pages that lack some of the readouts, or all of them: a round that is won
\* with three golden apples and paused at will, and a round of two golden
\* apples that the clock ends
UiScenarios ==
    { Scenario(<<AppleOnStart, AppleOnStart, AppleOnStart>>, <<>>, {"p"}, 0, AnyFrame),
      Scenario(<<AppleOnStart, AppleOnStart>>, <<>>, {"ArrowRight", "ArrowUp"},
               RoundMs - 2 * MaxFrameMs, AnyFrame) }

UiInit == InitOn(SUBSET Readouts, UiScenarios)

UiSpec == UiInit /\ [][Next]_vars

(***************************************************************************)
(* Properties                                                              *)
(***************************************************************************)
\* the simulation data of a game: everything but the state and lastTime
SimData(g) == [g EXCEPT !.state = State.MENU, !.lastTimeFresh = FALSE]

\* a keydown event of the pause key
PauseDown ==
    /\ InKeyWindow
    /\ "p" \in env.userKeys
    /\ game' = onKeyDown(game, keys, "p").game
    /\ keys' = onKeyDown(game, keys, "p").keys
    /\ UNCHANGED <<rafCallbacks, ranInFrame, rng, env, did, harvest, round,
                   listeners, frame>>

Entries == game.player.activePowerUps

\* C1 as stated: the state changes only by MENU->PLAYING on start,
\* PLAYING->PAUSED on pause, PAUSED->PLAYING on resume, PLAYING->GAME_OVER/WIN
\* from the frame update and GAME_OVER/WIN->MENU on reset; a start, reset or
\* pause command in any other state changes nothing of the game.
C1_AsClaimed ==
    [][ /\ game'.state # game.state =>
             \/ game.state = State.MENU /\ game'.state = State.PLAYING /\ Start
             \/ game.state = State.PLAYING /\ game'.state = State.PAUSED /\ PauseDown
             \/ game.state = State.PAUSED /\ game'.state = State.PLAYING
                  /\ (PauseDown \/ Start)
             \/ game.state = State.PLAYING /\ game'.state \in {State.GAME_OVER, State.WIN}
                  /\ Tick
             \/ game.state \in {State.GAME_OVER, State.WIN} /\ game'.state = State.MENU
                  /\ Reset
        /\ (Start /\ game.state \notin {State.MENU, State.PAUSED}) => game' = game
        /\ (Reset /\ game.state \notin {State.GAME_OVER, State.WIN}) => game' = game
        /\ (PauseDown /\ game.state \notin {State.PLAYING, State.PAUSED}) => game' = game
      ]_vars

\* C1 amended: the state changes only by start in MENU, GAME_OVER or WIN
\* (to PLAYING), the pause key in PLAYING (to PAUSED), the pause key or start
\* in PAUSED (to PLAYING), the frame update in PLAYING (to GAME_OVER or WIN)
\* and reset in any state (to MENU); start while PLAYING and the pause key in
\* MENU, GAME_OVER or WIN change nothing of the game.
C1_Transitions ==
    [][ /\ game'.state # game.state =>
             \/ game.state \in {State.MENU, State.GAME_OVER, State.WIN}
                  /\ game'.state = State.PLAYING /\ Start
             \/ game.state = State.PLAYING /\ game'.state = State.PAUSED /\ PauseDown
             \/ game.state = State.PAUSED /\ game'.state = State.PLAYING
                  /\ (PauseDown \/ Start)
             \/ game.state = State.PLAYING /\ game'.state \in {State.GAME_OVER, State.WIN}
                  /\ Tick
             \/ game'.state = State.MENU /\ Reset
        /\ (Start /\ game.state = State.PLAYING) => game' = game
        /\ (PauseDown /\ game.state \in {State.MENU, State.GAME_OVER, State.WIN})
             => game' = game
      ]_vars

\* a finished round has been started again: two callback chains, a new round
C1_Witness ==
    game.state = State.PLAYING /\ rafCallbacks = 2 /\ did.phase = "simulated"

\* C2: a collection that takes the score from below the goal to the goal or
\* above leaves the state WIN in the same update, whatever time is left, and
\* the state is never PLAYING with score >= goal.
C2_WinOnGoal ==
    /\ (did.phase = "simulated" /\ did.collected # <<>> /\ game.score >= game.goal)
         => game.state = State.WIN
    /\ game.state = State.PLAYING => game.score < game.goal

C2_Witness ==
    /\ game.state = State.WIN
    /\ did.phase = "simulated" /\ did.collected # <<>>
    /\ game.timeLeft > 0

\* every collection of the round so far is one golden apple in one frame
OneAppleAFrame == \A i \in 1..Len(harvest) : harvest[i] = <<"goldenApple">>

\* C3 as stated: with golden apples collected one per frame from score 0,
\* the state becomes WIN upon the fifth collection.
C3_AsClaimed ==
    (OneAppleAFrame /\ game.state = State.WIN) => Len(harvest) = 5

\* C3 amended: with golden apples collected one per frame from score 0, the
\* state becomes WIN upon the third collection (3 * 5 = goal), with time left.
C3_ThirdApple ==
    OneAppleAFrame =>
        /\ Len(harvest) <= 3
        /\ game.state = State.WIN <=> Len(harvest) = 3
        /\ game.state = State.WIN => game.timeLeft > 0

C3_Witness ==
    /\ game.state = State.WIN
    /\ harvest = <<<<"goldenApple">>, <<"goldenApple">>, <<"goldenApple">>>>
    /\ game.score = 15

\* C4: the update that brings timeLeft to 0 with score < goal sets GAME_OVER
\* and stops: the player, the entities, the score, the accumulators and the
\* random source are as before.
C4_TimeUpStops ==
    [][ (game.state = State.PLAYING /\ game.score < game.goal
              /\ game'.timeLeft = 0 /\ Tick)
          => /\ game' = [game EXCEPT !.state = State.GAME_OVER, !.timeLeft = 0,
                                     !.lastTimeFresh = FALSE]
             /\ rng' = rng
             /\ harvest' = harvest
      ]_vars

\* the clock ran out at score 10 with a key held, room to move and a crop due
C4_Witness ==
    /\ game.state = State.GAME_OVER /\ did.phase = "timeup"
    /\ game.score = 10
    /\ "ArrowRight" \in keys
    /\ game.player.x + baseSpeed * did.dt <= WIDTH * Milli - game.player.w
    /\ game.accumSpawn + did.dt >= spawnEvery

\* C5: the pause key takes PLAYING to PAUSED and PAUSED to PLAYING, and the
\* pausing step, every step while paused and the resuming step leave score,
\* timeLeft, player, crops, power-ups, obstacles, texts and accumulators alone.
C5_PauseResume ==
    [][ /\ (PauseDown /\ game.state = State.PLAYING) => game'.state = State.PAUSED
        /\ (PauseDown /\ game.state = State.PAUSED) => game'.state = State.PLAYING
        /\ (\/ game.state = State.PLAYING /\ game'.state = State.PAUSED
            \/ game.state = State.PAUSED /\ game'.state \in {State.PAUSED, State.PLAYING})
             => SimData(game') = SimData(game)
      ]_vars

\* resumed after a frame that ran while paused, with a round under way
C5_Witness ==
    /\ game.state = State.PLAYING /\ did.phase = "skipped"
    /\ "p" \in keys
    /\ game.score > 0 /\ game.pointTexts # <<>> /\ game.timeLeft < RoundMs

\* C6: 0 <= timeLeft <= round length in every reachable state.
C6_TimerRange == 0 <= game.timeLeft /\ game.timeLeft <= GAME_LEN * Milli

\* the last frame took more than was left on the clock
C6_Witness == did.phase = "timeup" /\ game.timeLeft = 0 /\ did.dt > 0

\* C7 as stated: no step taken while PLAYING lowers the score and no step
\* taken in another state changes it.
C7_AsClaimed ==
    [][ IF game.state = State.PLAYING
        THEN game'.score >= game.score
        ELSE game'.score = game.score ]_vars

\* C7 amended: a frame update or key event does not lower the score while
\* PLAYING and does not change it in another state; reset in any state and
\* start in MENU, GAME_OVER or WIN set it to 0; start in PLAYING or PAUSED
\* leaves it.
C7_Score ==
    [][ /\ \/ IF game.state = State.PLAYING
              THEN game'.score >= game.score
              ELSE game'.score = game.score
           \/ ~(Tick \/ KeyDown \/ KeyUp)
        /\ Reset => game'.score = 0
        /\ Start => game'.score = IF StartsChain(game) THEN 0 ELSE game.score
      ]_vars

\* a round that was reset with points on the board
C7_Witness ==
    /\ game.state = State.MENU /\ game.score = 0 /\ game.lastTimeFresh
    /\ rng.crops = <<AppleOnStart>>

\* C8: a proposed position that overlaps an obstacle puts both coordinates
\* back, and the player's box overlaps no obstacle's box.
C8_NoOverlap ==
    /\ ~Bumps(game.player, game.obstacles)
    /\ (did.phase = "simulated" /\ did.bumped)
         => game.player.x = did.oldX /\ game.player.y = did.oldY

\* a diagonal move was refused
C8_Witness ==
    /\ did.phase = "simulated" /\ did.bumped
    /\ did.vx # 0 /\ did.vy # 0 /\ did.dt > 0

\* C9 as stated: the speed that moves the player comes only from power-ups
\* with time left after this frame's decrement; when none is left
\* (player.speed is the base speed) the velocity and the displacement of the
\* frame are those of the base speed.
C9_AsClaimed ==
    (did.phase = "simulated" /\ game.player.speed = baseSpeed) =>
        /\ did.vx \in {-baseSpeed, 0, baseSpeed}
        /\ did.vy \in {-baseSpeed, 0, baseSpeed}
        /\ Abs(game.player.x - did.oldX) <= baseSpeed * Abs(did.dt)
        /\ Abs(game.player.y - did.oldY) <= baseSpeed * Abs(did.dt)

\* C10: at most one entry per kind; an entry has 0 < timeLeft <= duration
\* (a pickup replaces, it does not add); every kind picked up in a frame,
\* twice or not, has the full duration after it.
C10_OneEntryPerKind ==
    /\ \A i, j \in 1..Len(Entries) : Entries[i].type = Entries[j].type => i = j
    /\ \A i \in 1..Len(Entries) :
         0 < Entries[i].timeLeft /\ Entries[i].timeLeft <= PowerUpDuration * Milli
    /\ did.phase = "simulated" =>
         \A n \in 1..Len(did.picked) :
            \E i \in 1..Len(Entries) :
               /\ Entries[i].type = did.picked[n]
               /\ Entries[i].timeLeft = PowerUpDuration * Milli

\* two power-ups of one kind were picked up in one frame
C10_Witness ==
    /\ did.phase = "simulated" /\ Len(did.picked) = 2
    /\ did.picked[1] = did.picked[2]
    /\ Len(Entries) = 1

\* the crops the collection filter of a frame reads: the ones there were and
\* the ones the frame spawned
AtCollection ==
    SpawnCrops(game.crops, Draws(rng.crops, did'.cropsSpawned, DefaultCropDraw))

\* a scythe entry that has time left after the decrement of the frame
ScytheRuns ==
    \E i \in 1..Len(Entries) :
        Entries[i].type = "scythe" /\ Entries[i].timeLeft - did'.dt > 0

\* C11: in a frame in which a scythe picked up earlier has time left after
\* the frame's decrement, a crop is collected iff the distance between its
\* centre and the player's centre is at most 80; in every other frame (the
\* scythe has run out, or there is none) a crop is collected iff its box
\* overlaps the player's.
C11_ScytheCollection ==
    [][ (game.state = State.PLAYING /\ did'.phase = "simulated" /\ Tick) =>
          \A there \in {AtCollection} :
             /\ Len(did'.taken) = Len(there)
             /\ \A i \in 1..Len(there) :
                   did'.taken[i] <=> IF ScytheRuns
                                     THEN InScythe(game'.player, there[i])
                                     ELSE aabb(game'.player, there[i])
      ]_vars

\* the farmer never moved, a wheat beside the farmer was collected while the
\* scythe ran, and the one that came after it ran out lies there
C11_Witness ==
    /\ did.phase = "simulated" /\ harvest = <<<<"wheat">>>>
    /\ game.player.x = StartX * Milli /\ game.player.y = StartY * Milli
    /\ Entries = <<>> /\ ~game.player.hasScythe
    /\ \E i \in 1..Len(game.crops) :
          InScythe(game.player, game.crops[i]) /\ ~aabb(game.player, game.crops[i])

\* the start of a round, field by field
IsRoundStart(g) ==
    /\ g.state = "PLAYING"
    /\ g.score = 0
    /\ g.timeLeft = 60 * Milli
    /\ g.crops = <<>> /\ g.powerUps = <<>> /\ g.pointTexts = <<>>
    /\ g.accumSpawn = 0 /\ g.accumPowerUpSpawn = 0
    /\ g.player = [x |-> 433 * Milli, y |-> 460 * Milli,
                   w |-> 34 * Milli, h |-> 34 * Milli, dead |-> FALSE,
                   speed |-> 260, vx |-> 0, vy |-> 0,
                   activePowerUps |-> <<>>, hasScythe |-> FALSE]
    /\ g.obstacles = << [x |-> 200 * Milli, y |-> 220 * Milli,
                         w |-> 26 * Milli, h |-> 46 * Milli, dead |-> FALSE],
                        [x |-> 650 * Milli, y |-> 160 * Milli,
                         w |-> 26 * Milli, h |-> 46 * Milli, dead |-> FALSE] >>

\* C12: from every reachable state reset() followed by start() gives the
\* start of a round: PLAYING, score 0, timeLeft 60, no crops, power-ups or
\* texts, accumulators 0, a new player at the start position with the base
\* speed and no power-up, and the two obstacles at (200,220) and (650,160).
C12_ResetThenStart == IsRoundStart(start(reset(game)))

\* a round in which every crop of the scenario was spawned has been followed
\* by a new start of a round, on a second callback chain
C12_Witness ==
    /\ IsRoundStart(game) /\ game.lastTimeFresh
    /\ rafCallbacks = 2
    /\ env.crops # <<>> /\ rng.crops = <<>>

\* C13 as stated: after dispose() none of the subscriptions of the session is
\* registered: keydown, keyup, resize and the click handlers of the start
\* and reset buttons.
C13_AsClaimed == [][ Dispose => listeners' = {} ]_vars

\* C14 as stated: render runs in every animation frame in every game state,
\* MENU before the first start included.
C14_AsClaimed == (frame.passed /\ BetweenFrames) => frame.renders >= 1

\* C15: a frame update in MENU, PAUSED, GAME_OVER or WIN changes nothing of
\* the game (state, score, timeLeft, player, crops, power-ups, texts,
\* accumulators) and draws no random value; and a round that is over changes
\* by nothing but start and reset.
C15_SkipsUnlessPlaying ==
    [][ /\ (game.state # State.PLAYING /\ did'.phase = "skipped" /\ Tick) =>
              /\ SimData(game') = SimData(game)
              /\ game'.state = game.state
              /\ rng' = rng
        /\ (game.state \in {State.GAME_OVER, State.WIN} /\ game' # game) =>
              (Start \/ Reset)
      ]_vars

\* a frame went by after the clock ran out, with a key held and crops on the
\* field
C15_Witness ==
    /\ game.state = State.GAME_OVER /\ did.phase = "skipped"
    /\ keys # {} /\ game.crops # <<>>

\* C16 as stated: at most one callback chain is active, and update and
\* render run once in an animation frame.
C16_AsClaimed == rafCallbacks <= 1 /\ frame.renders <= 1

\* C17: state, score and timer agree: PLAYING or PAUSED implies score < goal
\* and timeLeft > 0; WIN implies score >= goal; GAME_OVER implies
\* timeLeft = 0 and score < goal; MENU implies score = 0 and timeLeft = 60;
\* and the update in which the timer reaches zero leaves GAME_OVER.
C17_StateScoreTimer ==
    /\ game.state \in {State.PLAYING, State.PAUSED} =>
          game.score < game.goal /\ game.timeLeft > 0
    /\ game.state = State.WIN => game.score >= game.goal
    /\ game.state = State.GAME_OVER =>
          game.timeLeft = 0 /\ game.score < game.goal
    /\ game.state = State.MENU =>
          game.score = 0 /\ game.timeLeft = 60 * Milli
    /\ did.phase = "timeup" => game.state = State.GAME_OVER

\* the clock ran out on a round in which crops were spawned and none collected
C17_Witness ==
    /\ did.phase = "timeup" /\ game.state = State.GAME_OVER
    /\ game.score = 0 /\ round.crops > 0

\* the value of a crop by its kind: wheat 1, pumpkin 3, golden apple 5
ValueOfKind(type) ==
    CASE type = "wheat" -> 1 [] type = "pumpkin" -> 3 [] type = "goldenApple" -> 5

RECURSIVE KindsValue(_)
KindsValue(types) ==
    IF types = <<>> THEN 0 ELSE ValueOfKind(Head(types)) + KindsValue(Tail(types))

RECURSIVE HarvestValue(_)
HarvestValue(h) == IF h = <<>> THEN 0 ELSE KindsValue(Head(h)) + HarvestValue(Tail(h))

\* the positions and kinds of a list of crops
Lying(crops) ==
    [i \in 1..Len(crops) |-> <<crops[i].x, crops[i].y, crops[i].type>>]

\* the crops of a list that were not collected, by the flags of the frame
Untaken(crops, taken) ==
    SelectSeq([i \in 1..Len(crops) |-> [crops[i] EXCEPT !.dead = taken[i]]],
              LAMBDA c : ~c.dead)

\* C18: the score is the sum of the values of the crops collected in the
\* round (wheat 1, pumpkin 3, golden apple 5), above the goal too; a frame
\* adds the values of the crops it collects once, and the crops left after
\* the frame are the ones it did not collect.
C18_ScoreIsHarvest ==
    [][ /\ game'.score = HarvestValue(harvest')
        /\ (game.state = State.PLAYING /\ did'.phase = "simulated" /\ Tick) =>
              /\ game'.score = game.score + KindsValue(did'.collected)
              /\ Len(did'.collected) = Cardinality({i \in 1..Len(did'.taken) : did'.taken[i]})
              /\ \A there \in {AtCollection} :
                    \A left \in {Untaken(there, did'.taken)} :
                       Lying(game'.crops) = Lying(left)
              /\ \A i \in 1..Len(game'.crops) : ~game'.crops[i].dead
      ]_vars

\* two pumpkins collected in one frame took the score from 10 to 16
C18_Witness ==
    /\ did.phase = "simulated" /\ did.collected = <<"pumpkin", "pumpkin">>
    /\ game.score = 16 /\ game.goal = 15 /\ game.state = State.WIN

\* C19: the collection of a frame reads the player's position after the
\* frame's move and the crops after the frame's spawns: after a simulated
\* frame no crop that is left overlaps the player, so a crop the player
\* reached in the frame, or one spawned onto the player, went in that frame.
C19_CollectsAfterMove ==
    did.phase = "simulated" =>
        \A i \in 1..Len(game.crops) : ~aabb(game.player, game.crops[i])

\* the farmer walked onto a crop that lay there before the frame, and the
\* frame collected it
C19_Witness ==
    /\ did.phase = "simulated" /\ did.collected = <<"wheat">>
    /\ did.cropsSpawned = 0 /\ ~game.player.hasScythe
    /\ did.vx = -baseSpeed /\ game.player.x = did.oldX - baseSpeed * did.dt

\* C20 as stated: after a simulated frame each spawn accumulator is in
\* [0, its interval), and the crops and power-ups spawned in the round are
\* floor(T / 0.8) and floor(T / 12), T the sum of the deltas of the simulated
\* frames of the round.
C20_AsClaimed ==
    /\ did.phase = "simulated" =>
          /\ 0 <= game.accumSpawn /\ game.accumSpawn < 800
          /\ 0 <= game.accumPowerUpSpawn /\ game.accumPowerUpSpawn < 12000
    /\ round.crops = round.T \div 800
    /\ round.powerUps = round.T \div 12000


\* +1, 0 or -1: the key of the positive direction minus the key of the
\* negative direction
Axis(pos, neg, held) ==
    IF pos \in held /\ neg \notin held THEN 1
    ELSE IF neg \in held /\ pos \notin held THEN -1 ELSE 0

\* C21: the held-key set changes only by a keydown, which adds the key, and
\* a keyup, which removes it; and in a simulated frame the velocity on each
\* axis is (positive key held - negative key held) times the speed the
\* player has when the frame begins: -speed, 0 or +speed on each axis by
\* itself, 0 with both opposite keys held.
C21_HeldKeysAndVelocity ==
    [][ /\ keys' # keys =>
              \/ \E k \in env.userKeys : keys' = keys \cup {k} /\ KeyDown
              \/ \E k \in keys : keys' = keys \ {k} /\ KeyUp
        /\ (game.state = State.PLAYING /\ did'.phase = "simulated" /\ Tick) =>
              /\ did'.vx = Axis("ArrowRight", "ArrowLeft", keys) * game.player.speed
              /\ did'.vy = Axis("ArrowDown", "ArrowUp", keys) * game.player.speed
              /\ game'.player.vx = did'.vx /\ game'.player.vy = did'.vy
      ]_vars

\* left and right are held together with up: no horizontal velocity, and the
\* farmer goes up
C21_Witness ==
    /\ did.phase = "simulated"
    /\ {"ArrowLeft", "ArrowRight", "ArrowUp"} \subseteq keys
    /\ did.vx = 0 /\ did.vy = -baseSpeed
    /\ game.player.x = did.oldX /\ game.player.y < did.oldY

\* C22: the player's box lies inside the field: 0 <= x <= 900 - 34 and
\* 0 <= y <= 540 - 34 in every reachable state.
C22_InsideField ==
    /\ 0 <= game.player.x /\ game.player.x <= (900 - 34) * Milli
    /\ 0 <= game.player.y /\ game.player.y <= (540 - 34) * Milli

\* the farmer, with a speed boost, was stopped at the left edge of the field
C22_Witness ==
    /\ did.phase = "simulated" /\ did.vx = -468
    /\ game.player.x = 0 /\ did.oldX > 0 /\ did.oldX + did.vx * did.dt < 0

\* every frame of a round that is being played changes the state
TickMoves ==
    Playing =>
        \A e \in ElapsedNow :
           \A r \in {update([game EXCEPT !.lastTimeFresh = FALSE], FrameDt(e), keys, rng)} :
              r.game # game \/ r.did # did \/ r.rng # rng

\* C23: a round that is being played ends.  Unless the game stays paused for
\* ever, a PLAYING state is followed by WIN or GAME_OVER, or by MENU when the
\* round is reset; every frame of the round moves it on, and its simulated
\* time stays below 60 s.  (For rounds on one callback chain: with more
\* chains the model follows a round for SecondRound ms.)
C23_RoundEnds ==
    /\ []TickMoves
    /\ [](round.T < 60 * Milli)
    /\ []<>(game.state # State.PAUSED) =>
          (Playing ~> (game.state \in {State.WIN, State.GAME_OVER, State.MENU}))

\* a round that was paused and resumed ran to the end of its clock
C23_Witness ==
    /\ game.state = State.GAME_OVER /\ did.phase = "timeup"
    /\ rafCallbacks = 1 /\ "p" \in keys
    /\ round.T > 59 * Milli

\* the game as it is when the page has every readout
AllPresent(g) == [g EXCEPT !.ui = Readouts]

\* C24: whichever of the readouts score, time, goal, status and power-up
\* status are missing, no command and no frame update ends with an error, the
\* frame loop goes on, and the step leaves the simulation state that it
\* leaves when every readout is present.
C24_MissingReadouts ==
    [][ /\ ~game'.threw
        /\ did'.phase # "aborted"
        /\ rafCallbacks' >= rafCallbacks
        /\ game' # game =>
             \/ Start /\ AllPresent(game') = start(AllPresent(game))
             \/ Reset /\ AllPresent(game') = reset(AllPresent(game))
             \/ PauseDown /\ AllPresent(game') = togglePause(AllPresent(game))
             \/ /\ \E e \in ElapsedNow :
                     AllPresent(game') =
                        update(AllPresent([game EXCEPT !.lastTimeFresh = FALSE]),
                               FrameDt(e), keys, rng).game
                /\ Tick ]_vars

\* a round is won on a page without readouts, after a pause
C24_Witness ==
    /\ game.ui = {}
    /\ game.state = State.WIN /\ did.phase = "simulated" /\ did.collected # <<>>
    /\ "p" \in keys
====
